---- MODULE Spec2Model ----
(***************************************************************************)
(* A model of SlackClient (src/slack_client.py).                           *)
(*                                                                         *)
(* The client keeps two configuration values and is otherwise stateless:   *)
(* every operation is one request/response cycle against the platform.     *)
(* The state of the model is therefore the client's credentials, the       *)
(* record of the last completed call (its arguments, the requests it put   *)
(* on the wire, the responses the platform gave, and its outcome), and,    *)
(* for the concurrent specification, the table of send_message calls in    *)
(* flight together with the platform's log of message-post requests.       *)
(*                                                                         *)
(* Python values are modelled as follows.                                  *)
(*   str    a sequence of atoms; where the code looks at characters        *)
(*          (startswith, lower, lstrip, in) the atoms are characters.      *)
(*   None   the one-atom sequence None.                                    *)
(*   dict   a function whose DOMAIN is the set of keys present, so that    *)
(*          d.get(k, default) and d[k] behave as in Python.                *)
(*   list   a sequence.                                                    *)
(* Payloads are well typed: a key the code reads may be missing, but a     *)
(* key that is present holds a value of the type the platform documents.   *)
(***************************************************************************)
EXTENDS Integers, Sequences, FiniteSets, TLC

VARIABLES client_id, client_secret, last, calls, wire

vars == <<client_id, client_secret, last, calls, wire>>

---------------------------------------------------------------------------
(* Python values *)

None == <<"<None>">>

EmptyStr == <<>>

EmptyDict == [k \in {} |-> k]

\* bool(v) of a str-or-None value
Truthy(v) == v # None /\ v # EmptyStr

\* d.get(k, default)
Get(d, k, default) == IF k \in DOMAIN d THEN d[k] ELSE default

\* d.get(k)
GetOrNone(d, k) == Get(d, k, None)

\* d restricted to the keys in P: the dict in which only those keys are present
Restrict(d, P) == [k \in P \cap DOMAIN d |-> d[k]]

\* all dicts obtained from the dicts of D by leaving keys out
Partial(D) == UNION {{Restrict(d, P) : P \in SUBSET DOMAIN d} : d \in D}

\* str(v) as an f-string renders it
Str(v) == IF v = None THEN <<"None">> ELSE v

\* s.startswith(p)
StartsWith(s, p) == Len(s) >= Len(p) /\ SubSeq(s, 1, Len(p)) = p

\* p in s (substring)
Contains(s, p) ==
    \E i \in 1..(Len(s) - Len(p) + 1) : SubSeq(s, i, i + Len(p) - 1) = p

\* the outcome of a call: a returned value or a raised exception
Return(v) == [kind |-> "return", value |-> v]

Raise(m) == [kind |-> "raise", msg |-> m]

\* no call is under way
NoCall == [op |-> "none"]

---------------------------------------------------------------------------
(* Bounds and input domains *)

\* the credentials read from the environment at construction
ClientIds == {<<"app-id">>}

ClientSecrets == {<<"app-secret">>}

UserToken == <<"x", "o", "x", "p", "-", "1">>

BotToken == <<"x", "o", "x", "b", "-", "2">>

OtherToken == <<"t", "k">>

Codes == {<<"code-1">>}

RedirectUris == {<<"https://host/cb">>}

\* HTTP statuses the token endpoint answers with
Statuses == {200, 500}

\* exceptions the transport can raise, by their message
TransportErrors == {<<"connection reset">>}

\* the token endpoint's JSON payloads: every key may be missing
TokenPayloads ==
    Partial([ok : BOOLEAN,
             error : {<<"invalid_code">>},
             authed_user : Partial([access_token : {EmptyStr, UserToken}]),
             access_token : {EmptyStr, BotToken, UserToken},
             team : Partial([id : {<<"T1">>}, name : {<<"team">>}]),
             scope : {<<"chat:write">>}])

\* what requests.post can do: raise, or answer with a status and a body that
\* is JSON (key json present) or is not
TokenResponses ==
    {[exception |-> e] : e \in TransportErrors}
    \cup {[status_code |-> s] : s \in Statuses}
    \cup [status_code : Statuses, json : TokenPayloads]

---------------------------------------------------------------------------
(* exchange_code_for_token *)

\* the form posted to the token endpoint
TokenRequest(code, redirect_uri) ==
    [api |-> "oauth.v2.access",
     data |-> [client_id |-> client_id, client_secret |-> client_secret,
               code |-> code, redirect_uri |-> redirect_uri]]

\* token_type as line 75 computes it
TokenType(user_token, authed_user) ==
    IF user_token = GetOrNone(authed_user, "access_token") THEN "user" ELSE "bot"

\* the token the result carries: the nested one, else the top-level one
ResolveToken(data, authed_user) ==
    LET user_token == GetOrNone(authed_user, "access_token")
    IN  IF ~Truthy(user_token) THEN GetOrNone(data, "access_token") ELSE user_token

\* a payload that answers "ok" only when the flag is there and false
TokenOkUnlessDenied(data) == Get(data, "ok", TRUE)

\* line 53: data.get("ok")
TokenOk(data) == Get(data, "ok", FALSE)

\* the body of the try block, given what requests.post did; the except clause
\* prints and re-raises, so a raised exception is the call's outcome
ExchangeOutcome(response) ==
    IF "exception" \in DOMAIN response THEN Raise(response.exception)
    ELSE IF response.status_code = 200 THEN
        IF "json" \notin DOMAIN response THEN Raise(<<"JSONDecodeError">>)
        ELSE
            LET data == response.json
            IN  IF TokenOk(data) THEN
                    LET authed_user == Get(data, "authed_user", EmptyDict)
                        user_token == ResolveToken(data, authed_user)
                    IN  Return([access_token |-> user_token,
                                team_id |-> GetOrNone(Get(data, "team", EmptyDict), "id"),
                                team_name |-> GetOrNone(Get(data, "team", EmptyDict), "name"),
                                scope |-> GetOrNone(data, "scope"),
                                token_type |-> TokenType(user_token, authed_user)])
                ELSE Raise(<<"Slack OAuth error: ">> \o Str(GetOrNone(data, "error")))
    ELSE Raise(<<"Token exchange failed: ", ToString(response.status_code)>>)

exchange_code_for_token(code, redirect_uri, response) ==
    /\ last' = [op |-> "exchange_code_for_token",
                args |-> [code |-> code, redirect_uri |-> redirect_uri],
                net |-> <<TokenRequest(code, redirect_uri)>>,
                responses |-> <<response>>,
                outcome |-> ExchangeOutcome(response)]
    /\ UNCHANGED <<client_id, client_secret, calls, wire>>

ExchangeCodeForToken ==
    /\ last = NoCall
    /\ \E code \in Codes, redirect_uri \in RedirectUris, response \in TokenResponses :
           exchange_code_for_token(code, redirect_uri, response)

---------------------------------------------------------------------------
(* The platform's answers to the calls made through WebClient *)

\* limit=200 of the conversation-listing request
PageLimit == 200

\* longest channel argument and channel query the model draws
MaxLen == 2

\* most channels the platform lists in one page of the model
MaxChannels == 2

\* most send_message calls in flight together
MaxCalls == 2

Alphabet == {"a", "A", "c", "C", "#"}

\* every string over the alphabet, up to n characters
Strings(n) == UNION {[1..k -> Alphabet] : k \in 0..n}

\* every sequence over S, up to n elements
SeqsUpTo(S, n) == UNION {[1..k -> S] : k \in 0..n}

\* channel records as the platform sends them; the last two are malformed
\* (no id, no name)
RawChannels ==
    {[id |-> <<"C", "1">>, name |-> <<"c", "a">>, is_channel |-> TRUE,
      is_group |-> FALSE, is_private |-> FALSE, is_member |-> TRUE],
     [id |-> <<"G", "2">>, name |-> <<"C", "a">>, is_group |-> TRUE,
      is_private |-> TRUE],
     [id |-> <<"C", "3">>, name |-> <<"a">>],
     [name |-> <<"a">>, is_channel |-> TRUE],
     [id |-> <<"C", "1">>]}

PlatformErrors == {<<"missing_scope">>}

\* what a WebClient method can do: return a response (key result), raise
\* SlackApiError carrying the platform's response (key slack_api_error, with
\* str(e) under text), or raise any other exception (key exception)
ApiOutcomes(results) ==
    [result : results]
    \cup [slack_api_error : Partial([error : PlatformErrors]),
          text : {<<"The request to the Slack API failed.">>}]
    \cup [exception : TransportErrors]

ListOutcomes ==
    ApiOutcomes({EmptyDict} \cup [channels : SeqsUpTo(RawChannels, MaxChannels)])

MatchLists ==
    {<<>>, <<[ts |-> <<"1">>, text |-> <<"hi">>], [ts |-> <<"2">>, text |-> <<"ho">>]>>}

SearchOutcomes ==
    ApiOutcomes(Partial([ok : BOOLEAN,
                         error : PlatformErrors,
                         messages : Partial([matches : MatchLists])]))

PostOutcomes ==
    ApiOutcomes(Partial([ok : BOOLEAN,
                         error : PlatformErrors,
                         ts : {<<"17.5">>},
                         channel : {<<"C", "1">>},
                         message : Partial([bot_id : {<<"B", "7">>},
                                            username : {<<"omi">>}])]))

AccessTokens == {UserToken, BotToken, OtherToken, EmptyStr, None}

ChannelIds == {<<"C", "1">>, <<"G", "2">>}

Queries == {<<"q">>}

Texts == {<<"hello">>, <<"bye">>}

---------------------------------------------------------------------------
(* str methods *)

LowerChar(c) ==
    CASE c = "A" -> "a"
      [] c = "C" -> "c"
      [] c = "G" -> "g"
      [] OTHER -> c

\* s.lower()
Lower(s) == [i \in 1..Len(s) |-> LowerChar(s[i])]

\* s.lstrip(c): every leading c removed
RECURSIVE LStrip(_, _)
LStrip(s, c) == IF s # <<>> /\ Head(s) = c THEN LStrip(Tail(s), c) ELSE s

---------------------------------------------------------------------------
(* list_channels *)

ListRequest(access_token) ==
    [api |-> "conversations.list", token |-> access_token,
     types |-> <<"public_channel,private_channel">>,
     exclude_archived |-> TRUE, limit |-> PageLimit]

\* the dict appended for one channel; channel["id"] and channel["name"] raise
\* KeyError when the key is missing
HasKeys(channel) == {"id", "name"} \subseteq DOMAIN channel

ChannelRecord(channel) ==
    [id |-> channel["id"],
     name |-> channel["name"],
     is_channel |-> Get(channel, "is_channel", FALSE),
     is_group |-> Get(channel, "is_group", FALSE),
     is_private |-> Get(channel, "is_private", FALSE),
     is_member |-> Get(channel, "is_member", FALSE)]

\* the for loop: channels built so far, and whether a record raised
RECURSIVE BuildChannels(_, _)
BuildChannels(listed, channels) ==
    IF listed = <<>> THEN [raised |-> FALSE, channels |-> channels]
    ELSE IF ~HasKeys(Head(listed)) THEN [raised |-> TRUE, channels |-> channels]
    ELSE BuildChannels(Tail(listed), Append(channels, ChannelRecord(Head(listed))))

\* a listing that hands back what was built before a record raised
ListChannelsKeepsPartial(listing) ==
    IF "result" \in DOMAIN listing
    THEN BuildChannels(Get(listing.result, "channels", <<>>), <<>>).channels
    ELSE <<>>

\* the value list_channels hands back, given what conversations_list did:
\* both except clauses return [], whatever was built (e.response['error'] on
\* line 115 is SlackResponse's item access, which gives None for a missing key)
ListChannels(listing) ==
    IF "result" \in DOMAIN listing THEN
        LET built == BuildChannels(Get(listing.result, "channels", <<>>), <<>>)
        IN  IF built.raised THEN <<>> ELSE built.channels
    ELSE <<>>

list_channels(access_token, listing) ==
    /\ last' = [op |-> "list_channels",
                args |-> [access_token |-> access_token],
                net |-> <<ListRequest(access_token)>>,
                responses |-> <<listing>>,
                outcome |-> Return(ListChannels(listing))]
    /\ UNCHANGED <<client_id, client_secret, calls, wire>>

ListChannelsCall ==
    /\ last = NoCall
    /\ \E access_token \in AccessTokens, listing \in ListOutcomes :
           list_channels(access_token, listing)

---------------------------------------------------------------------------
(* search_channels *)

\* a filter that matches the start of the name only
MatchingChannelsByPrefix(all_channels, query) ==
    LET query_lower == LStrip(Lower(query), "#")
        Matches(channel) == StartsWith(Lower(Get(channel, "name", EmptyStr)), query_lower)
    IN  SelectSeq(all_channels, Matches)

\* the filter of lines 267-271
MatchingChannels(all_channels, query) ==
    LET query_lower == LStrip(Lower(query), "#")
        Matches(channel) == Contains(Lower(Get(channel, "name", EmptyStr)), query_lower)
    IN  SelectSeq(all_channels, Matches)

search_channels(access_token, query, listing) ==
    /\ last' = [op |-> "search_channels",
                args |-> [access_token |-> access_token, query |-> query],
                net |-> <<ListRequest(access_token)>>,
                responses |-> <<listing>>,
                outcome |-> Return(MatchingChannels(ListChannels(listing), query))]
    /\ UNCHANGED <<client_id, client_secret, calls, wire>>

SearchChannelsCall ==
    /\ last = NoCall
    /\ \E access_token \in {UserToken}, query \in Strings(MaxLen), listing \in ListOutcomes :
           search_channels(access_token, query, listing)

---------------------------------------------------------------------------
(* search_messages *)

\* line 206: the argument is taken for a channel name, to be looked up
IsChannelName(channel) ==
    ~StartsWith(channel, <<"C">>) /\ ~StartsWith(channel, <<"G">>)

\* a comparison that forgets to lower-case
NameMatchesCaseSensitive(ch, channel) == ch["name"] = LStrip(channel, "#")

\* line 211
NameMatches(ch, channel) == Lower(ch["name"]) = LStrip(Lower(channel), "#")

\* lines 209-213: the id of the first listed channel of that name, else None
RECURSIVE FindChannelId(_, _)
FindChannelId(channels, channel) ==
    IF channels = <<>> THEN None
    ELSE IF NameMatches(Head(channels), channel)
         THEN Head(channels)["id"]
         ELSE FindChannelId(Tail(channels), channel)

\* whether the call lists the channels before it searches
NeedsListing(channel) == Truthy(channel) /\ IsChannelName(channel)

\* a query that keeps the unresolved name as the channel filter
SearchQueryKeepsName(query, channel, channels) ==
    IF Truthy(channel) THEN
        IF IsChannelName(channel) THEN
            LET channel_id == FindChannelId(channels, channel)
            IN  IF Truthy(channel_id) THEN <<"in:">> \o channel_id \o <<" ">> \o query
                ELSE <<"in:">> \o channel \o <<" ">> \o query
        ELSE <<"in:">> \o channel \o <<" ">> \o query
    ELSE query

\* lines 202-217: the query handed to the search endpoint
SearchQuery(query, channel, channels) ==
    IF Truthy(channel) THEN
        IF IsChannelName(channel) THEN
            LET channel_id == FindChannelId(channels, channel)
            IN  IF Truthy(channel_id) THEN <<"in:">> \o channel_id \o <<" ">> \o query
                ELSE query
        ELSE <<"in:">> \o channel \o <<" ">> \o query
    ELSE query

SearchRequest(access_token, search_query) ==
    [api |-> "search.messages", token |-> access_token, query |-> search_query]

\* an error message that drops the platform's error string
ApiErrorText(failed) == failed.text

\* lines 173 and 235: e.response.get('error', str(e))
ApiErrorMessage(failed) == Get(failed.slack_api_error, "error", failed.text)

\* lines 147 and 221: result.get("ok")
ResultOk(result) == Get(result, "ok", FALSE)

\* lines 221-248: the result, given what client.search_messages did
SearchResult(searched) ==
    IF "result" \in DOMAIN searched THEN
        IF ResultOk(searched.result) THEN
            LET matches == Get(Get(searched.result, "messages", EmptyDict), "matches", <<>>)
            IN  [success |-> TRUE, matches |-> matches, total |-> Len(matches)]
        ELSE [success |-> FALSE,
              error |-> Get(searched.result, "error", <<"Unknown error">>)]
    ELSE IF "slack_api_error" \in DOMAIN searched THEN
        [success |-> FALSE, error |-> ApiErrorMessage(searched)]
    ELSE [success |-> FALSE, error |-> searched.exception]

search_messages(access_token, query, channel, listing, searched) ==
    /\ LET listed == NeedsListing(channel)
           channels == IF listed THEN ListChannels(listing) ELSE <<>>
           search_query == SearchQuery(query, channel, channels)
       IN  last' = [op |-> "search_messages",
                    args |-> [access_token |-> access_token, query |-> query,
                              channel |-> channel],
                    net |-> (IF listed THEN <<ListRequest(access_token)>> ELSE <<>>)
                            \o <<SearchRequest(access_token, search_query)>>,
                    responses |-> (IF listed THEN <<listing>> ELSE <<>>) \o <<searched>>,
                    platform |-> listing,
                    outcome |-> Return(SearchResult(searched))]
    /\ UNCHANGED <<client_id, client_secret, calls, wire>>

SearchMessagesCall ==
    /\ last = NoCall
    /\ \E access_token \in {UserToken}, query \in Queries,
          channel \in {None} \cup Strings(MaxLen) \cup ChannelIds,
          listing \in ListOutcomes, searched \in SearchOutcomes :
           search_messages(access_token, query, channel, listing, searched)

---------------------------------------------------------------------------
(* send_message *)

\* line 136: the label printed for the token
TokenLabel(access_token) ==
    IF Truthy(access_token) /\ StartsWith(access_token, <<"x", "o", "x", "p", "-">>)
    THEN "USER"
    ELSE IF Truthy(access_token) /\ StartsWith(access_token, <<"x", "o", "x", "b", "-">>)
         THEN "BOT"
         ELSE "UNKNOWN"

PostRequest(access_token, channel_id, text) ==
    [api |-> "chat.postMessage", token |-> access_token,
     channel |-> channel_id, text |-> text]

\* a classification read off the token's prefix
PostedAsByToken(token_type, bot_id) == IF token_type = "BOT" THEN "bot" ELSE "user"

\* line 164
PostedAs(token_type, bot_id) == IF Truthy(bot_id) THEN "bot" ELSE "user"

\* lines 135-186: the result, given what chat_postMessage did
SendResult(access_token, text, posted) ==
    LET token_type == TokenLabel(access_token)
    IN  IF "result" \in DOMAIN posted THEN
            IF ResultOk(posted.result) THEN
                LET message_data == Get(posted.result, "message", EmptyDict)
                    bot_id == GetOrNone(message_data, "bot_id")
                IN  [success |-> TRUE,
                     ts |-> GetOrNone(posted.result, "ts"),
                     channel |-> GetOrNone(posted.result, "channel"),
                     text |-> text,
                     posted_as |-> PostedAs(token_type, bot_id)]
            ELSE [success |-> FALSE,
                  error |-> Get(posted.result, "error", <<"Unknown error">>)]
        ELSE IF "slack_api_error" \in DOMAIN posted THEN
            [success |-> FALSE, error |-> ApiErrorMessage(posted)]
        ELSE [success |-> FALSE, error |-> posted.exception]

send_message(access_token, channel_id, text, posted) ==
    /\ last' = [op |-> "send_message",
                args |-> [access_token |-> access_token, channel_id |-> channel_id,
                          text |-> text],
                net |-> <<PostRequest(access_token, channel_id, text)>>,
                responses |-> <<posted>>,
                outcome |-> Return(SendResult(access_token, text, posted))]
    /\ UNCHANGED <<client_id, client_secret, calls, wire>>

SendMessageCall ==
    /\ last = NoCall
    /\ \E access_token \in AccessTokens, channel_id \in {<<"C", "1">>}, text \in Texts,
          posted \in PostOutcomes :
           send_message(access_token, channel_id, text, posted)

\* the caller takes the result: nothing of a finished call stays in the client
ResultTaken ==
    /\ last # NoCall
    /\ last' = NoCall
    /\ UNCHANGED <<client_id, client_secret, calls, wire>>

---------------------------------------------------------------------------
(* send_message calls in flight together.  A call is issued by its caller, *)
(* puts its request on the wire, and finishes when the platform answers;   *)
(* other calls may take steps between a call's request and its answer.     *)

CallTokens == {UserToken, BotToken}

\* the answers the platform gives in the concurrent specification
CallOutcomes ==
    {[result |-> [ok |-> TRUE, ts |-> <<"17.5">>, channel |-> <<"C", "1">>,
                  message |-> [bot_id |-> <<"B", "7">>]]],
     [result |-> [ok |-> TRUE, ts |-> <<"17.5">>, channel |-> <<"C", "1">>,
                  message |-> [username |-> <<"omi">>]]],
     [result |-> [ok |-> FALSE, error |-> <<"missing_scope">>]],
     [slack_api_error |-> [error |-> <<"missing_scope">>],
      text |-> <<"The request to the Slack API failed.">>],
     [exception |-> <<"connection reset">>]}

\* the caller invokes send_message(access_token, channel_id, text)
IssueSend(access_token, channel_id, text) ==
    /\ Len(calls) < MaxCalls
    /\ calls' = Append(calls, [pc |-> "start", access_token |-> access_token,
                               channel_id |-> channel_id, text |-> text])
    /\ UNCHANGED <<client_id, client_secret, last, wire>>

\* a call that posts nothing when the same channel and text are on the wire
SendPostDeduplicated(i) ==
    /\ calls[i].pc = "start"
    /\ calls' = [calls EXCEPT ![i].pc = "posted"]
    /\ LET c == calls[i]
           request == PostRequest(c.access_token, c.channel_id, c.text)
           same(w) == w.request.channel = request.channel /\ w.request.text = request.text
       IN  wire' = IF \E k \in 1..Len(wire) : same(wire[k]) THEN wire
                   ELSE Append(wire, [call |-> i, request |-> request])
    /\ UNCHANGED <<client_id, client_secret, last>>

\* lines 132-145: the call reaches client.chat_postMessage
SendPost(i) ==
    /\ calls[i].pc = "start"
    /\ calls' = [calls EXCEPT ![i].pc = "posted"]
    /\ LET c == calls[i]
       IN  wire' = Append(wire, [call |-> i,
                                 request |-> PostRequest(c.access_token, c.channel_id, c.text)])
    /\ UNCHANGED <<client_id, client_secret, last>>

\* lines 147-186: chat_postMessage returns or raises, and the call returns
SendReturn(i, posted) ==
    /\ calls[i].pc = "posted"
    /\ calls' = [calls EXCEPT ![i] =
                    [pc |-> "done", access_token |-> @.access_token,
                     channel_id |-> @.channel_id, text |-> @.text,
                     posted |-> posted,
                     result |-> SendResult(@.access_token, @.text, posted)]]
    /\ UNCHANGED <<client_id, client_secret, last, wire>>

Issue ==
    \E access_token \in CallTokens, channel_id \in {<<"C", "1">>}, text \in Texts :
        IssueSend(access_token, channel_id, text)

Post == \E i \in 1..Len(calls) : SendPost(i)

Answer == \E i \in 1..Len(calls), posted \in CallOutcomes : SendReturn(i, posted)

---------------------------------------------------------------------------
(* Specification *)

Init ==
    /\ client_id \in ClientIds
    /\ client_secret \in ClientSecrets
    /\ last = NoCall
    /\ calls = <<>>
    /\ wire = <<>>

Next ==
    \/ ExchangeCodeForToken
    \/ ListChannelsCall
    \/ SearchChannelsCall
    \/ SearchMessagesCall
    \/ SendMessageCall
    \/ ResultTaken

Spec == Init /\ [][Next]_vars

NextConcurrent ==
    \/ Issue
    \/ Post
    \/ Answer

SpecConcurrent == Init /\ [][NextConcurrent]_vars

---------------------------------------------------------------------------
(* Properties of exchange_code_for_token *)

IsExchange == last.op = "exchange_code_for_token"

\* what requests.post did in the last call
Posted == last.responses[1]

\* the token endpoint answered 200 with a JSON payload
Answered200 ==
    /\ IsExchange
    /\ "status_code" \in DOMAIN Posted
    /\ Posted.status_code = 200
    /\ "json" \in DOMAIN Posted

Payload == Posted.json

PayloadOk == Answered200 /\ "ok" \in DOMAIN Payload /\ Payload.ok

\* the user token nested under authed_user, None when the payload has none
NestedToken ==
    IF "authed_user" \in DOMAIN Payload /\ "access_token" \in DOMAIN Payload.authed_user
    THEN Payload.authed_user.access_token
    ELSE None

\* the top-level access_token, None when the payload has none
TopLevelToken ==
    IF "access_token" \in DOMAIN Payload THEN Payload.access_token ELSE None

\* C1: for every response with status 200 and ok=true the call returns; with a
\* non-empty nested user token the result has token_type "user" and that token,
\* and with none (or an empty one) it has token_type "bot" and the top-level
\* access_token, whatever that is, absent included.
C1_TokenResolution ==
    PayloadOk =>
        /\ last.outcome.kind = "return"
        /\ IF Truthy(NestedToken)
           THEN /\ last.outcome.value.token_type = "user"
                /\ last.outcome.value.access_token = NestedToken
           ELSE /\ last.outcome.value.token_type = "bot"
                /\ last.outcome.value.access_token = TopLevelToken

\* C2: the call returns no result when the endpoint answers with a status other
\* than 200 (it raises, the status code in the message), when it answers 200
\* with a payload whose ok flag is false or missing (it raises, the platform's
\* error string in the message), or when the POST raises (that exception is the
\* call's outcome).
C2_FailuresRaise ==
    IsExchange =>
        /\ "exception" \in DOMAIN Posted => last.outcome = Raise(Posted.exception)
        /\ ("status_code" \in DOMAIN Posted /\ Posted.status_code # 200) =>
               /\ last.outcome.kind = "raise"
               /\ Contains(last.outcome.msg, <<ToString(Posted.status_code)>>)
        /\ (Answered200 /\ ~PayloadOk) =>
               /\ last.outcome.kind = "raise"
               /\ "error" \in DOMAIN Payload => Contains(last.outcome.msg, Payload.error)

\* a 200 answer whose payload lacks the ok flag and names an error was refused
C2_Witness ==
    /\ Answered200
    /\ "ok" \notin DOMAIN Payload
    /\ "error" \in DOMAIN Payload
    /\ last.outcome.kind = "raise"

\* C3: every result the call returns carries a present, non-empty access_token:
\* a 200/ok payload with neither a nested user token nor a top-level token
\* makes the call raise.
C3_ResultHasToken ==
    (IsExchange /\ last.outcome.kind = "return") =>
        Truthy(last.outcome.value.access_token)

---------------------------------------------------------------------------
(* Properties of list_channels and search_channels *)

\* the listing call returned a response, and every channel record in it has
\* an id and a name
ListingSucceeded(listing) ==
    /\ "result" \in DOMAIN listing
    /\ "channels" \in DOMAIN listing.result =>
           \A i \in 1..Len(listing.result.channels) :
               {"id", "name"} \subseteq DOMAIN listing.result.channels[i]

\* the channels of a response, none when the key is missing
ListedIn(listing) ==
    IF "channels" \in DOMAIN listing.result THEN listing.result.channels ELSE <<>>

Hits(channels, query) ==
    {i \in 1..Len(channels) :
        Contains(Lower(channels[i].name), LStrip(Lower(query), "#"))}

\* value is channels cut down to the indices in I, order kept
IsSelection(value, channels, I) ==
    /\ Len(value) = Cardinality(I)
    /\ \E f \in [1..Len(value) -> 1..Len(channels)] :
           /\ \A k \in 1..Len(value) : f[k] \in I /\ value[k] = channels[f[k]]
           /\ \A k, l \in 1..Len(value) : k < l => f[k] < f[l]

\* C9: search_channels returns exactly the channels of list_channels' result
\* whose lower-cased name contains the lower-cased query with its leading "#"
\* stripped, in listing order, each once; the listing call is its only network
\* call; a failed listing gives the empty list.
C9_SearchChannels ==
    last.op = "search_channels" =>
        LET listing == last.responses[1]
            all_channels == ListChannels(listing)
            value == last.outcome.value
        IN  /\ last.outcome.kind = "return"
            /\ IsSelection(value, all_channels, Hits(all_channels, last.args.query))
            /\ Len(last.net) = 1
            /\ last.net[1].api = "conversations.list"
            /\ ~ListingSucceeded(listing) => value = <<>>

\* an upper-case query behind a "#" picks one of two listed channels
C9_Witness ==
    /\ last.op = "search_channels"
    /\ last.args.query = <<"#", "C">>
    /\ Len(ListChannels(last.responses[1])) = 2
    /\ Len(last.outcome.value) = 1
    /\ last.outcome.value[1].id = <<"G", "2">>

---------------------------------------------------------------------------
(* Properties of send_message and search_messages *)

\* what the message-post or search call of the last call did
Remote == last.responses[Len(last.responses)]

\* the remote call returned a response that says ok
RemoteOk(r) == "result" \in DOMAIN r /\ "ok" \in DOMAIN r.result /\ r.result.ok

\* the error string the platform supplied, if it supplied one
PlatformError(r) ==
    IF "result" \in DOMAIN r
    THEN IF "error" \in DOMAIN r.result THEN {r.result.error} ELSE {}
    ELSE IF "slack_api_error" \in DOMAIN r /\ "error" \in DOMAIN r.slack_api_error
         THEN {r.slack_api_error.error}
         ELSE {}

\* C5: send_message and search_messages return, whatever the remote call did
\* (and whatever the channel listing did), a result with a boolean success
\* field; success is false exactly when the post/search call did not return
\* ok, and the result then carries an error string, the platform's own when the
\* platform supplied one.
C5_FailSoft ==
    last.op \in {"send_message", "search_messages"} =>
        LET value == last.outcome.value
        IN  /\ last.outcome.kind = "return"
            /\ value.success \in BOOLEAN
            /\ (value.success = FALSE) <=> ~RemoteOk(Remote)
            /\ ~value.success =>
                   /\ "error" \in DOMAIN value
                   /\ value.error # None
                   /\ \A e \in PlatformError(Remote) : value.error = e

\* a search whose channel listing raised and whose search call ended in a
\* platform API error: the platform's error string is in the result
C5_Witness ==
    /\ last.op = "search_messages"
    /\ Len(last.responses) = 2
    /\ "exception" \in DOMAIN last.responses[1]
    /\ "slack_api_error" \in DOMAIN Remote
    /\ "error" \in DOMAIN Remote.slack_api_error
    /\ last.outcome.value = [success |-> FALSE, error |-> Remote.slack_api_error.error]

\* the platform echoed a bot identifier on the created message
BotEchoed(r) ==
    /\ "message" \in DOMAIN r.result
    /\ "bot_id" \in DOMAIN r.result.message
    /\ r.result.message.bot_id # EmptyStr

\* C6: a successful send_message has posted_as "bot" if and only if the
\* platform echoed a bot identifier on the created message, and "user"
\* otherwise, whatever the prefix of the access token.
C6_PostedAs ==
    (last.op = "send_message" /\ last.outcome.value.success) =>
        last.outcome.value.posted_as = IF BotEchoed(Remote) THEN "bot" ELSE "user"

\* a message sent with a bot-prefixed token and echoed without a bot identifier
C6_Witness ==
    /\ last.op = "send_message"
    /\ last.args.access_token = BotToken
    /\ last.outcome.value.success
    /\ ~BotEchoed(Remote)
    /\ last.outcome.value.posted_as = "user"

\* the channel argument of the last call is a non-empty string
ChannelGiven == last.args.channel # None /\ last.args.channel # EmptyStr

\* the channel argument begins with the letter that marks an identifier
HasIdPrefix == Head(last.args.channel) \in {"C", "G"}

\* the channels list_channels makes of the platform's listing
Listed == ListChannels(last.platform)

\* the listed channels whose name equals the argument, case ignored and the
\* argument's leading "#" dropped
Named ==
    {i \in 1..Len(Listed) :
        Lower(Listed[i].name) = LStrip(Lower(last.args.channel), "#")}

FirstNamed == CHOOSE i \in Named : \A j \in Named : i <= j

\* the query the search endpoint received
Sent == last.net[Len(last.net)].query

InChannel(id) == <<"in:">> \o id \o <<" ">> \o last.args.query

C8_ChannelResolution ==
    (last.op = "search_messages" /\ ChannelGiven) =>
        /\ last.args.channel \in ChannelIds =>
               Sent = InChannel(last.args.channel) /\ Len(last.net) = 1
        /\ Named # {} => Sent = InChannel(Listed[FirstNamed].id)

\* C8, amended: a channel argument that begins with an upper-case "C" or "G"
\* goes into the query as it is, with no listing call; any other non-empty
\* channel argument that equals, in any letter case and with or without a
\* leading "#", the name of a listed channel is resolved to the id of the first
\* such channel in listing order.
C8_ChannelResolutionByPrefix ==
    (last.op = "search_messages" /\ ChannelGiven) =>
        /\ HasIdPrefix => Sent = InChannel(last.args.channel) /\ Len(last.net) = 1
        /\ (~HasIdPrefix /\ Named # {}) =>
               /\ Sent = InChannel(Listed[FirstNamed].id)
               /\ Len(last.net) = 2
               /\ last.net[1].api = "conversations.list"

\* a name in mixed case that two listed channels bear: the first one's id is sent
C8_Witness ==
    /\ last.op = "search_messages"
    /\ last.args.channel = <<"c", "A">>
    /\ Cardinality(Named) = 2
    /\ Listed[1].id = <<"G", "2">>
    /\ Sent = InChannel(<<"G", "2">>)

---------------------------------------------------------------------------
(* Properties of concurrent send_message calls *)

Done == {i \in 1..Len(calls) : calls[i].pc = "done"}

\* the message-post requests call i has put on the wire
RequestsOf(i) == {k \in 1..Len(wire) : wire[k].call = i}

\* every call that reached the post has exactly one request on the wire, its
\* own; every finished call's result follows from its own answer alone
EachCallOnItsOwn ==
    /\ \A i \in 1..Len(calls) :
           Cardinality(RequestsOf(i)) = IF calls[i].pc = "start" THEN 0 ELSE 1
    /\ \A k \in 1..Len(wire) :
           LET c == calls[wire[k].call]
           IN  wire[k].request = [api |-> "chat.postMessage", token |-> c.access_token,
                                  channel |-> c.channel_id, text |-> c.text]
    /\ \A i \in Done :
           /\ calls[i].result.success <=> RemoteOk(calls[i].posted)
           /\ \A j \in Done :
                  (/\ calls[j].access_token = calls[i].access_token
                   /\ calls[j].text = calls[i].text
                   /\ calls[j].posted = calls[i].posted) =>
                      calls[j].result = calls[i].result

\* C10: in every interleaving of concurrent send_message calls each call issues
\* exactly one message-post request (none is retried, none is suppressed for
\* having the channel and text of another), each result follows from the answer
\* to the call's own request, and no step changes the client's credentials.
C10_IndependentCalls ==
    [][/\ client_id' = client_id
       /\ client_secret' = client_secret
       /\ EachCallOnItsOwn']_vars

\* two calls with the same channel and text, the first failed and the second
\* succeeded: two requests are on the wire
C10_Witness ==
    /\ Len(calls) = 2
    /\ Done = {1, 2}
    /\ calls[1].text = calls[2].text
    /\ calls[1].channel_id = calls[2].channel_id
    /\ ~calls[1].result.success
    /\ calls[2].result.success
    /\ Len(wire) = 2

====
